---- MODULE Spec2Model ----
(***************************************************************************)
(* Health Bridge API (src/src/index.ts) and its weight table               *)
(* (migrations/0001_init_weight_table.sql).                                *)
(*                                                                         *)
(* Text values (uuid, dates, header values, query text) are sequences of   *)
(* one-character strings, so that trim(), startsWith(), slice() and the    *)
(* bytewise ORDER BY of a TEXT column are computed, not assumed.           *)
(* A timestamp "2025-08-17THH:00:00+oo:00" is written by its hour and its  *)
(* UTC offset only, "HH+oo" / "HH-oo": the parts left out are the same in  *)
(* every timestamp used, so the byte order of the short texts is the byte  *)
(* order of the full ones.                                                 *)
(*                                                                         *)
(* Numbers: a request weight is an integer count of thousandths of its     *)
(* unit, a stored kg and a returned lb are integer counts of hundredths.   *)
(* toFixed(2) is modelled on the real value (round to nearest, a tie away  *)
(* from zero); the representation error of binary floating point is not    *)
(* modelled.                                                               *)
(***************************************************************************)
EXTENDS Integers, Sequences, FiniteSets, TLC

VARIABLES APP_TOKEN, weight, now, nreq, pend, last, conv

vars == <<APP_TOKEN, weight, now, nreq, pend, last, conv>>

(* ------------------------------ bounds -------------------------------- *)

\* Largest value of the server clock.
MaxClock == 1

\* Number of requests the callers send in one behaviour.
MaxReqs == 3

\* Number of consecutive weights tried from each base by the round trip.
MaxV == 300

(* ------------------------------- text --------------------------------- *)

\* Byte value of the characters used.
Code(ch) ==
  CASE ch = " " -> 32
    [] ch = "+" -> 43
    [] ch = "-" -> 45
    [] ch = "0" -> 48
    [] ch = "1" -> 49
    [] ch = "2" -> 50
    [] ch = "3" -> 51
    [] ch = "4" -> 52
    [] ch = "5" -> 53
    [] ch = "6" -> 54
    [] ch = "7" -> 55
    [] ch = "8" -> 56
    [] ch = "9" -> 57
    [] ch = "B" -> 66
    [] ch = "a" -> 97
    [] ch = "b" -> 98
    [] ch = "c" -> 99
    [] ch = "e" -> 101
    [] ch = "g" -> 103
    [] ch = "k" -> 107
    [] ch = "r" -> 114
    [] ch = "t" -> 116
    [] ch = "u" -> 117
    [] OTHER -> 120

IsDigit(ch) == Code(ch) >= 48 /\ Code(ch) <= 57

DigitVal(ch) == Code(ch) - 48

RECURSIVE TrimStart(_)
TrimStart(s) ==
  IF s # <<>> /\ Head(s) = " " THEN TrimStart(Tail(s)) ELSE s

RECURSIVE TrimEnd(_)
TrimEnd(s) ==
  IF s # <<>> /\ s[Len(s)] = " " THEN TrimEnd(SubSeq(s, 1, Len(s) - 1)) ELSE s

\* String.prototype.trim
Trim(s) == TrimEnd(TrimStart(s))

\* String.prototype.startsWith
StartsWith(s, p) == Len(s) >= Len(p) /\ SubSeq(s, 1, Len(p)) = p

\* String.prototype.slice(n)
Slice(s, n) == SubSeq(s, n + 1, Len(s))

\* memcmp order of two texts (SQLite's BINARY collation): s before t.
RECURSIVE TextLess(_, _)
TextLess(s, t) ==
  IF t = <<>> THEN FALSE
  ELSE IF s = <<>> THEN TRUE
  ELSE IF Code(Head(s)) # Code(Head(t)) THEN Code(Head(s)) < Code(Head(t))
  ELSE TextLess(Tail(s), Tail(t))

RECURSIVE DigitsVal(_, _)
DigitsVal(s, acc) ==
  IF s = <<>> THEN acc ELSE DigitsVal(Tail(s), 10 * acc + DigitVal(Head(s)))

AllDigits(s) == s # <<>> /\ \A i \in 1..Len(s) : IsDigit(s[i])

(* ------------------------------ numbers ------------------------------- *)

\* A JavaScript number: an integer or NaN.
NaN == [nan |-> TRUE, n |-> 0]

Num(n) == [nan |-> FALSE, n |-> n]

\* Number(text) for the texts used: whitespace only is 0, an optionally
\* signed run of digits is its value, anything else is NaN.
ToNumber(s) ==
  LET t == Trim(s) IN
  IF t = <<>> THEN Num(0)
  ELSE IF AllDigits(t) THEN Num(DigitsVal(t, 0))
  ELSE IF Head(t) = "-" /\ AllDigits(Tail(t)) THEN Num(0 - DigitsVal(Tail(t), 0))
  ELSE IF Head(t) = "+" /\ AllDigits(Tail(t)) THEN Num(DigitsVal(Tail(t), 0))
  ELSE NaN

\* Math.min and Math.max: NaN if either argument is NaN.
MathMin(a, b) ==
  IF a.nan \/ b.nan THEN NaN ELSE IF a.n <= b.n THEN a ELSE b

MathMax(a, b) ==
  IF a.nan \/ b.nan THEN NaN ELSE IF a.n >= b.n THEN a ELSE b

\* n/d rounded to the nearest integer, a tie away from zero (d > 0).
RoundDivPos(n, d) ==
  IF 2 * (n % d) >= d THEN (n \div d) + 1 ELSE n \div d

RoundDiv(n, d) ==
  IF n >= 0 THEN RoundDivPos(n, d) ELSE 0 - RoundDivPos(0 - n, d)

\* n/d with the fraction dropped (toward zero).
TruncDiv(n, d) ==
  IF n >= 0 THEN n \div d ELSE 0 - ((0 - n) \div d)

\* Number(kg.toFixed(2)) with kg = weight / 2.20462 for "lb", weight for "kg":
\* thousandths of the unit in, hundredths of a kilogram out.
\* (w/1000)/2.20462 * 100 = w * 5000 / 110231.
KgTruncated(unit, w) ==
  IF unit = "lb" THEN TruncDiv(w * 5000, 110231) ELSE TruncDiv(w, 10)

KgFixed(unit, w) ==
  IF unit = "lb" THEN RoundDiv(w * 5000, 110231) ELSE RoundDiv(w, 10)

\* Number((row.kg * 2.20462).toFixed(2)): hundredths of a kilogram in,
\* hundredths of a pound out. k * 2.20462 = 2 * k + k * 10231 / 50000 (the
\* whole part is added after the rounding, which keeps the products small).
LbTruncated(k) == 2 * k + TruncDiv(k * 10231, 50000)

LbFixed(k) == 2 * k + RoundDiv(k * 10231, 50000)

(* ------------------------- deployment and inputs ---------------------- *)

Callers == {"c1", "c2"}

Token == <<"t", "k">>

\* c.env.APP_TOKEN: not set (or set to "") is the empty text.
Tokens == {<<>>, Token}

BearerPrefix == <<"B", "e", "a", "r", "e", "r", " ">>

\* Authorization header values: none, the token, another token.
Headers == {<<>>, BearerPrefix \o Token, BearerPrefix \o <<"b", "k">>}

ManualEntry == <<"m", "a", "n", "u", "a", "l", "-", "e", "n", "t", "r", "y">>

U1 == <<"u", "1">>

U2 == <<"u", "2">>

\* What crypto.randomUUID() / generateUUID() may return.
GenIds == {<<"g", "1">>, <<"g", "2">>}

\* "2025-08-17T12:47:05-04:00" (16:47 UTC)
T12m04 == <<"1", "2", "-", "0", "4">>

\* the same day, 13 h at +00:00 (13:00 UTC)
T13p00 == <<"1", "3", "+", "0", "0">>

\* the same day, 11 h at +00:00 (11:00 UTC)
T11p00 == <<"1", "1", "+", "0", "0">>

\* the same day, 14 h at +00:00 (14:00 UTC)
T14p00 == <<"1", "4", "+", "0", "0">>

\* {weight:372.4, unit:"lb", timestamp:"2025-08-17T12:47:05-04:00"}
BodyE2E == [weight |-> 372400, unit |-> "lb", timestamp |-> T12m04]

BodyU1a ==
  [weight |-> 80000, unit |-> "kg", timestamp |-> T13p00, uuid |-> U1,
   sourceBundleId |-> <<"a", "p", "p">>]

BodyU1b ==
  [weight |-> 179000, unit |-> "lb", timestamp |-> T14p00,
   uuid |-> <<" ", "u", "1", " ">>, startDate |-> <<" ", "1", "1", "+", "0", "0">>,
   endDate |-> T12m04, sourceBundleId |-> <<" ">>]

BodyU2neg == [weight |-> -5000, unit |-> "kg", timestamp |-> T11p00, uuid |-> U2]

BodyU2tiny == [weight |-> 4, unit |-> "kg", timestamp |-> T14p00, uuid |-> U2]

BodyNoTimestamp == [weight |-> 70000, unit |-> "kg", uuid |-> U1]

BodyBadUnit == [weight |-> 70000, unit |-> "st", timestamp |-> T13p00]

BodyEmptyTimestamp == [weight |-> 70000, unit |-> "kg", timestamp |-> <<>>, uuid |-> U1]

Bodies ==
  {BodyE2E, BodyU1a, BodyU1b, BodyU2neg, BodyU2tiny, BodyNoTimestamp,
   BodyBadUnit, BodyEmptyTimestamp}

\* Query strings of GET /health/weight: no limit, or limit=<text>.
Queries ==
  {[none |-> TRUE]} \cup
  {[limit |-> t] : t \in {<<"0">>, <<"2">>, <<"5", "0", "1">>, <<"a", "b", "c">>}}

\* Bodies of POST /health/import: {bodyMass: [...]}.
Sample1 ==
  [uuid |-> U1, startDate |-> T13p00, endDate |-> T13p00, unit |-> "kg",
   value |-> 80000, sourceBundleId |-> <<"a", "p", "p">>]

Batches == {[bodyMass |-> <<>>], [bodyMass |-> <<Sample1>>]}

(* ------------------------------ responses ----------------------------- *)

NoReq == [route |-> "none"]

NoLoc == [kind |-> "none"]

Response(status, ok, error, rows) ==
  [kind |-> "response", status |-> status, ok |-> ok, error |-> error, rows |-> rows]

NoResp == [kind |-> "none", status |-> 0, ok |-> "", error |-> "", rows |-> <<>>]

\* The handler returned the boolean true: the framework got no Response from it.
ReturnedTrue == [kind |-> "true", status |-> 0, ok |-> "", error |-> "", rows |-> <<>>]

\* Hono's answer to a path with no route.
NotFound == Response(404, "", "404 Not Found", <<>>)

(* ------------------------------ handlers ------------------------------ *)

\* requireBearer: "true" (no token configured), "401" or "null" (passed).
requireBearer(expected, auth) ==
  IF expected = <<>> THEN "true"
  ELSE IF StartsWith(auth, BearerPrefix) /\ Slice(auth, 7) = expected THEN "null"
  ELSE "401"

\* WeightIn.parse: weight, unit and timestamp are required, unit is lb or kg.
WeightInOk(body) ==
  /\ {"weight", "unit", "timestamp"} \subseteq DOMAIN body
  /\ body.unit \in {"lb", "kg"}

\* body.f?.trim(): the empty text stands for undefined too (both are falsy).
OptTrim(body, f) == IF f \in DOMAIN body THEN Trim(body[f]) ELSE <<>>

\* a || b on texts
OrElse(a, b) == IF a # <<>> THEN a ELSE b

\* const values = { uuid, startDate, endDate, kgFixed, sourceBundleId }
Values(body, gen) ==
  [uuid |-> OrElse(OptTrim(body, "uuid"), gen),
   startDate |-> OrElse(OptTrim(body, "startDate"), body.timestamp),
   endDate |-> OrElse(OptTrim(body, "endDate"), body.timestamp),
   kg |-> KgFixed(body.unit, body.weight),
   sourceBundleId |-> OrElse(OptTrim(body, "sourceBundleId"), ManualEntry)]

\* .bind(uuid, startDate, endDate, kgFixed, sourceBundleId, currentTime, currentTime)
Bind(v, currentTime) ==
  [uuid |-> v.uuid, startDate |-> v.startDate, endDate |-> v.endDate, kg |-> v.kg,
   sourceBundleId |-> v.sourceBundleId, createdAt |-> currentTime,
   updatedAt |-> currentTime]

\* The first key of values that is "" (kgFixed is a number and never is), or "".
InvalidKey(v) ==
  IF v.uuid = <<>> THEN "uuid"
  ELSE IF v.startDate = <<>> THEN "startDate"
  ELSE IF v.endDate = <<>> THEN "endDate"
  ELSE IF v.sourceBundleId = <<>> THEN "sourceBundleId"
  ELSE ""

\* INSERT with no conflict clause on a table with no key.
InsertOnly(table, v) == table \cup {v}

\* ON CONFLICT(uuid) DO UPDATE that overwrites createdAt as well.
UpsertAll(table, v) ==
  IF \E r \in table : r.uuid = v.uuid
  THEN {IF r.uuid = v.uuid THEN v ELSE r : r \in table}
  ELSE table \cup {v}

\* INSERT INTO weight ... ON CONFLICT(uuid) DO UPDATE SET kg=excluded.kg,
\* updatedAt=excluded.updatedAt
Upsert(table, v) ==
  IF \E r \in table : r.uuid = v.uuid
  THEN {IF r.uuid = v.uuid
        THEN [r EXCEPT !.kg = v.kg, !.updatedAt = v.updatedAt]
        ELSE r : r \in table}
  ELSE table \cup {v}

\* Math.max(1, Math.min(500, Number(url.searchParams.get("limit") ?? "30")))
LimitOf(q) ==
  MathMax(Num(1),
          MathMin(Num(500),
                  ToNumber(IF "limit" \in DOMAIN q THEN q.limit ELSE <<"3", "0">>)))

\* SELECT startDate AS date, kg FROM weight ORDER BY startDate DESC LIMIT n:
\* every result the statement may produce (rows of equal startDate in any order).
Select(table, n) ==
  LET k == Cardinality(table)
      m == IF k < n THEN k ELSE n
      sorted == {s \in [1..k -> table] :
                   /\ \A i, j \in 1..k : i # j => s[i] # s[j]
                   /\ \A i, j \in 1..k :
                        i < j => ~TextLess(s[i].startDate, s[j].startDate)}
  IN {[i \in 1..m |-> s[i]] : s \in sorted}

\* results.map(row => ({date, kg, lb}))
Project(rows) ==
  [i \in 1..Len(rows) |->
     [date |-> rows[i].startDate, kg |-> rows[i].kg, lb |-> LbFixed(rows[i].kg)]]

(* ------------------------------- state -------------------------------- *)
(* pend[c] is caller c's POST suspended at its await of stmt.run(): the    *)
(* request and the values bound to the statement.  last is the exchange    *)
(* completed last: the request, the handler's locals and what  *)
(* was answered.                                                           *)

NoPend == [kind |-> "none"]

NoLast == [req |-> NoReq, loc |-> NoLoc, resp |-> NoResp]

ConvIdle == [pc |-> "idle", unit |-> "lb", v |-> 0, kg |-> 0, lb |-> 0]

\* The deployment is configured, the migration has created an empty table.
Init ==
  /\ APP_TOKEN \in Tokens
  /\ weight = {}
  /\ now = 0
  /\ nreq = 0
  /\ pend = [c \in Callers |-> NoPend]
  /\ last = NoLast
  /\ conv = ConvIdle

\* The POST handler up to its final check of the values: the response it
\* returns, or "" when it goes on to bind the statement.
PostEarly(auth, body, gen) ==
  LET authFail == requireBearer(APP_TOKEN, auth) IN
  IF authFail = "true" THEN ReturnedTrue
  ELSE IF authFail = "401" THEN Response(401, "false", "Unauthorized", <<>>)
  ELSE IF ~WeightInOk(body)
  THEN Response(400, "false", "Invalid JSON or missing required fields", <<>>)
  ELSE IF InvalidKey(Values(body, gen)) # ""
  THEN Response(400, "false", "Invalid value for " \o InvalidKey(Values(body, gen)), <<>>)
  ELSE NoResp

PostReq(auth, body) == [route |-> "POST /health/weight", auth |-> auth, body |-> body]

\* The identifiers the handler may generate for a body: none when it has a uuid.
GenFor(body) == IF OptTrim(body, "uuid") # <<>> THEN {<<>>} ELSE GenIds

\* POST /api/health/weight arrives and runs to its return or to its await of
\* stmt.run(). A request that passes the checks reads the server clock
\* (new Date()), which may have advanced since it was read last.
Post(c) ==
  /\ pend[c] = NoPend
  /\ nreq < MaxReqs
  /\ \E auth \in Headers, body \in Bodies :
       \E gen \in GenFor(body) :
         LET early == PostEarly(auth, body, gen) IN
         IF early # NoResp
         THEN /\ last' = [req |-> PostReq(auth, body), loc |-> NoLoc, resp |-> early]
              /\ UNCHANGED <<pend, now>>
         ELSE \E t \in now..MaxClock :
                /\ now' = t
                /\ pend' = [pend EXCEPT ![c] = [kind |-> "stmt",
                                                req |-> PostReq(auth, body),
                                                values |-> Bind(Values(body, gen), t)]]
                /\ last' = last
  /\ nreq' = nreq + 1
  /\ UNCHANGED <<APP_TOKEN, weight, conv>>

\* The store applies the caller's statement; the handler answers {ok:true}.
PostRun(c) ==
  /\ pend[c] # NoPend
  /\ weight' = Upsert(weight, pend[c].values)
  /\ pend' = [pend EXCEPT ![c] = NoPend]
  /\ last' = [req |-> pend[c].req,
              loc |-> [kind |-> "stmt", values |-> pend[c].values],
              resp |-> Response(200, "true", "", <<>>)]
  /\ UNCHANGED <<APP_TOKEN, now, nreq, conv>>

\* stmt.run() throws: the outer catch answers 500.
PostFail(c) ==
  /\ pend[c] # NoPend
  /\ pend' = [pend EXCEPT ![c] = NoPend]
  /\ last' = [req |-> pend[c].req,
              loc |-> [kind |-> "stmt", values |-> pend[c].values],
              resp |-> Response(500, "false", "Internal server error", <<>>)]
  /\ UNCHANGED <<APP_TOKEN, weight, now, nreq, conv>>

GetReq(q) == [route |-> "GET /health/weight", query |-> q]

SelectLoc(limit, ok, rows) == [kind |-> "select", limit |-> limit, ok |-> ok, rows |-> rows]

\* GET /api/health/weight: the limit, the SELECT and the projection. A limit of
\* NaN is no integer the store can bind to LIMIT: the query fails and the catch
\* answers [].
Get(c) ==
  /\ pend[c] = NoPend
  /\ nreq < MaxReqs
  /\ \E q \in Queries :
       LET limit == LimitOf(q) IN
       IF limit.nan
       THEN last' = [req |-> GetReq(q), loc |-> SelectLoc(limit, FALSE, <<>>),
                     resp |-> Response(200, "", "", <<>>)]
       ELSE \E rows \in Select(weight, limit.n) :
              last' = [req |-> GetReq(q), loc |-> SelectLoc(limit, TRUE, rows),
                       resp |-> Response(200, "", "", Project(rows))]
  /\ nreq' = nreq + 1
  /\ UNCHANGED <<APP_TOKEN, weight, now, pend, conv>>

\* GET /api/health/weight when the query throws: the catch answers [].
GetFail(c) ==
  /\ pend[c] = NoPend
  /\ nreq < MaxReqs
  /\ \E q \in Queries :
       last' = [req |-> GetReq(q), loc |-> SelectLoc(LimitOf(q), FALSE, <<>>),
                resp |-> Response(200, "", "", <<>>)]
  /\ nreq' = nreq + 1
  /\ UNCHANGED <<APP_TOKEN, weight, now, pend, conv>>

\* POST /api/health/import: api has no such route, the app answers 404.
Import(c) ==
  /\ pend[c] = NoPend
  /\ nreq < MaxReqs
  /\ \E auth \in Headers, body \in Batches :
       last' = [req |-> [route |-> "POST /health/import", auth |-> auth, body |-> body],
                loc |-> NoLoc, resp |-> NotFound]
  /\ nreq' = nreq + 1
  /\ UNCHANGED <<APP_TOKEN, weight, now, pend, conv>>

Next ==
  \/ \E c \in Callers : Post(c)
  \/ \E c \in Callers : PostRun(c)
  \/ \E c \in Callers : PostFail(c)
  \/ \E c \in Callers : Get(c)
  \/ \E c \in Callers : GetFail(c)
  \/ \E c \in Callers : Import(c)

Spec == Init /\ [][Next]_vars

(* --------------------------- unit round trip --------------------------- *)
(* The two conversions on their own: a weight v (thousandths of its unit)  *)
(* is stored as the POST handler stores it and shown as the GET handler    *)
(* shows it.                                                               *)

\* v ranges over base + 1 .. base + MaxV for each base: 0.001 .. and 372.001 ..
ConvBases == {0, 372000}

InitConv ==
  /\ APP_TOKEN \in Tokens
  /\ weight = {}
  /\ now = 0
  /\ nreq = 0
  /\ pend = [c \in Callers |-> NoPend]
  /\ last = NoLast
  /\ conv \in {[pc |-> "in", unit |-> u, v |-> b + k, kg |-> 0, lb |-> 0] :
                 u \in {"lb", "kg"}, b \in ConvBases, k \in 1..MaxV}

\* Normalize to kg, as the POST handler does.
ConvToKg ==
  /\ conv.pc = "in"
  /\ conv' = [conv EXCEPT !.pc = "stored", !.kg = KgFixed(conv.unit, conv.v)]
  /\ UNCHANGED <<APP_TOKEN, weight, now, nreq, pend, last>>

\* Derive lb, as the GET handler does.
ConvToLb ==
  /\ conv.pc = "stored"
  /\ conv' = [conv EXCEPT !.pc = "shown", !.lb = LbFixed(conv.kg)]
  /\ UNCHANGED <<APP_TOKEN, weight, now, nreq, pend, last>>

NextConv == ConvToKg \/ ConvToLb

SpecConv == InitConv /\ [][NextConv]_vars

Abs(n) == IF n >= 0 THEN n ELSE 0 - n

\* C9 (as claimed): for every positive v, v pounds stored as kilograms and
\* shown as pounds again differs from v by at most 0.01; v kilograms is stored
\* as round2(v).
C9_RoundTripWithin001 ==
  /\ (conv.pc = "shown" /\ conv.unit = "lb") => Abs(10 * conv.lb - conv.v) <= 10
  /\ (conv.pc # "in" /\ conv.unit = "kg") =>
       (10 * conv.kg - 5 <= conv.v /\ conv.v < 10 * conv.kg + 5)

\* C9 (amended): the difference is at most 0.01 when v has at most 2 decimals
\* and below 0.0161 for every other v; v kilograms is stored as round2(v).
C9_RoundTrip ==
  /\ (conv.pc = "shown" /\ conv.unit = "lb") =>
       /\ Abs(10 * conv.lb - conv.v) <= 16
       /\ conv.v % 10 = 0 => Abs(10 * conv.lb - conv.v) <= 10
  /\ (conv.pc # "in" /\ conv.unit = "lb") =>
       Abs(conv.kg * 110231 - conv.v * 5000) * 2 <= 110231
  /\ (conv.pc # "in" /\ conv.unit = "kg") =>
       (10 * conv.kg - 5 <= conv.v /\ conv.v < 10 * conv.kg + 5)

\* A weight in pounds with a third decimal has been stored and shown, and has
\* come back more than 0.01 off.
C9_Witness ==
  /\ conv.pc = "shown"
  /\ conv.unit = "lb"
  /\ conv.v % 10 # 0
  /\ Abs(10 * conv.lb - conv.v) > 10

(* ------------------------------- claims -------------------------------- *)

\* Caller c's statement is applied in this step and answered 200.
Ran(c) == pend[c] # NoPend /\ pend'[c] = NoPend /\ last'.resp.status = 200

\* Caller c's POST binds its statement in this step.
Bound(c) == pend[c] = NoPend /\ pend'[c] # NoPend

LastIsPost == last.req.route = "POST /health/weight"

LastIsGet == last.req.route = "GET /health/weight"

LastIsImport == last.req.route = "POST /health/import"

RowsOf(table, u) == {r \in table : r.uuid = u}

\* C1: in every state the table holds at most one row per uuid; a POST answered
\* 200 leaves exactly one row for its uuid; no step removes a row.
C1_OneRowPerUuid ==
  /\ [](\A r1, r2 \in weight : r1.uuid = r2.uuid => r1 = r2)
  /\ [][\A c \in Callers :
          Ran(c) => Cardinality(RowsOf(weight', pend[c].values.uuid)) = 1]_vars
  /\ [][\A r \in weight : RowsOf(weight', r.uuid) # {}]_vars

\* A second POST for a uuid that had a row has been answered 200 (its values
\* differ from the row kept), and a row with a generated uuid is stored too.
C1_Witness ==
  /\ LastIsPost
  /\ last.resp.status = 200
  /\ \E r \in weight :
       r.uuid = last.loc.values.uuid /\ r.startDate # last.loc.values.startDate
  /\ \E r \in weight : r.uuid \in GenIds

\* C2 (as claimed): after a POST answered 200, the row of its uuid has the kg,
\* sourceBundleId, startDate and endDate of that request.
C2_LastWriteWins ==
  (LastIsPost /\ last.resp.status = 200) =>
    \E r \in weight :
      /\ r.uuid = last.loc.values.uuid
      /\ r.kg = last.loc.values.kg
      /\ r.sourceBundleId = last.loc.values.sourceBundleId
      /\ r.startDate = last.loc.values.startDate
      /\ r.endDate = last.loc.values.endDate

\* C3: no step changes the createdAt of a row; a POST answered 200 leaves its
\* server time in updatedAt, and in createdAt if it inserted the row; a POST
\* never carries a server time earlier than the updatedAt of the row it finds;
\* no row is stamped later than the clock.
C3_CreatedKeptUpdatedSet ==
  /\ [][\A r \in weight : \A r2 \in RowsOf(weight', r.uuid) :
          r2.createdAt = r.createdAt]_vars
  /\ [][\A c \in Callers :
          Ran(c) =>
            \A r2 \in RowsOf(weight', pend[c].values.uuid) :
              /\ r2.updatedAt = pend[c].values.updatedAt
              /\ RowsOf(weight, r2.uuid) = {} => r2.createdAt = pend[c].values.createdAt]_vars
  /\ [][\A c \in Callers :
          Bound(c) =>
            \A r \in RowsOf(weight, pend'[c].values.uuid) :
              r.updatedAt <= pend'[c].values.updatedAt]_vars
  /\ [](\A r \in weight : r.createdAt <= now /\ r.updatedAt <= now)

\* A row was written again at a later server time: its createdAt is the first
\* time, its updatedAt that of the POST answered last.
C3_Witness ==
  /\ LastIsPost
  /\ last.resp.status = 200
  /\ \E r \in weight :
       /\ r.uuid = last.loc.values.uuid
       /\ r.createdAt < r.updatedAt
       /\ r.updatedAt = last.loc.values.updatedAt

\* The body passes WeightIn and the final check of the values.
ValidBody(body) ==
  /\ {"weight", "unit", "timestamp"} \subseteq DOMAIN body
  /\ body.unit \in {"lb", "kg"}
  /\ body.timestamp # <<>>

\* C4 (as claimed): with a token configured, a POST whose Authorization header
\* is not "Bearer " and the token is answered 401 Unauthorized; with no token
\* configured, a valid POST is answered 200 {ok:true} and its sample is stored.
C4_BearerGate ==
  LastIsPost =>
    /\ (APP_TOKEN # <<>> /\ last.req.auth # BearerPrefix \o APP_TOKEN) =>
         (last.resp.status = 401 /\ last.resp.error = "Unauthorized")
    /\ (APP_TOKEN = <<>> /\ ValidBody(last.req.body)) =>
         /\ last.resp.status = 200
         /\ last.resp.ok = "true"
         /\ \E r \in weight : r.kg = KgFixed(last.req.body.unit, last.req.body.weight)

\* C5 (as claimed): every stored kg is positive, and a POST whose weight is not
\* positive or rounds to 0.00 kg is answered 400.
C5_KgPositive ==
  /\ \A r \in weight : r.kg > 0
  /\ (/\ LastIsPost
      /\ ValidBody(last.req.body)
      /\ last.resp.kind = "response"
      /\ last.resp.status # 401
      /\ KgFixed(last.req.body.unit, last.req.body.weight) <= 0) =>
       last.resp.status = 400

\* k hundredths is a nearest hundredth to n/d (d > 0).
Nearest(k, n, d) == 2 * Abs(k * d - n) <= d

\* The token is configured and the request carries it.
Authorised(r) == APP_TOKEN # <<>> /\ r.auth = BearerPrefix \o APP_TOKEN

StoredRowE2E(kg) ==
  \E r \in weight :
    /\ weight = {r}
    /\ r.uuid \in GenIds
    /\ r.uuid # <<>>
    /\ r.startDate = T12m04
    /\ r.endDate = T12m04
    /\ r.sourceBundleId = ManualEntry
    /\ r.kg = kg

C7_LimitInRange ==
  LastIsGet =>
    LET given == IF "limit" \in DOMAIN last.req.query
                 THEN ToNumber(last.req.query.limit) ELSE NaN
        limit == last.loc.limit
    IN /\ ~limit.nan
       /\ limit.n \in 1..500
       /\ limit.n = (IF given.nan THEN 30
                     ELSE IF given.n <= 0 THEN 1
                     ELSE IF given.n > 500 THEN 500 ELSE given.n)

\* The instant of a timestamp "HH+oo" / "HH-oo", in hours UTC.
Instant(d) ==
  LET hour == DigitsVal(SubSeq(d, 1, 2), 0)
      off == DigitsVal(SubSeq(d, 4, 5), 0)
  IN IF d[3] = "-" THEN hour + off ELSE hour - off

\* C8 (as claimed): a successful GET with limit L returns min(L, rows) rows,
\* each the startDate and kg of a stored row, in descending order of start
\* time, and no row left out starts later than a row returned.
C8_LatestFirst ==
  (LastIsGet /\ last.loc.ok) =>
    LET out == last.resp.rows
        L == last.loc.limit.n
        n == Cardinality(weight)
    IN /\ Len(out) = (IF n < L THEN n ELSE L)
       /\ \A i \in 1..Len(out) :
            \E r \in weight : r.startDate = out[i].date /\ r.kg = out[i].kg
       /\ \A i, j \in 1..Len(out) :
            i < j => Instant(out[i].date) >= Instant(out[j].date)
       /\ \A r \in weight :
            Cardinality({q \in weight : q # r /\ Instant(q.startDate) >= Instant(r.startDate)}) < L
              => \E i \in 1..Len(out) : out[i].date = r.startDate /\ out[i].kg = r.kg

\* C10 (as claimed): an authorised POST /health/import is answered 200
\* {ok:true, ...} and every sample of the batch has a row.
C10_BatchImport ==
  (LastIsImport /\ (APP_TOKEN = <<>> \/ Authorised(last.req))) =>
    /\ last.resp.status = 200
    /\ last.resp.ok = "true"
    /\ \A i \in 1..Len(last.req.body.bodyMass) :
         RowsOf(weight, last.req.body.bodyMass[i].uuid) # {}

====
